---- MODULE Spec2Model ----
(***************************************************************************)
(* Forensic economic loss calculator (src/main.py).                        *)
(*                                                                         *)
(* run_case is modelled as a state machine whose program counter walks the *)
(* stages of the function body; the estimators and table builders are      *)
(* operators computed the way the Python code computes them.               *)
(*                                                                         *)
(* Numbers.  Python floats are modelled as exact rationals <<n, d>> with   *)
(* d > 0 and gcd(n, d) = 1, so every arithmetic identity checked below is  *)
(* an identity of the formulas the code evaluates; rounding of IEEE        *)
(* doubles is not modelled.  An optional value (None or a number) is the   *)
(* empty sequence or a one-element sequence.                               *)
(***************************************************************************)
EXTENDS Integers, Sequences, FiniteSets, TLC

VARIABLES
    config,          \* the config dict handed to run_case
    table_file,      \* Table01.xlsx next to the module: <<>> when absent, <<rows>> otherwise
    pc,              \* position of run_case in its body
    err,             \* the exception that ended the run ("" while none)
    age_years,       \* <<>> until the dates are parsed
    audit_log,       \* list of citation strings
    life,            \* <<>> or <<[years, fractions]>>  (_compute_life_expectancy result)
    worklife,        \* <<>> or <<[years, fractions]>>  (_compute_worklife_expectancy result)
    wage,            \* <<>> or <<[wages, yoy, avg]>>   (_compute_wage_growth_series result)
    projections,     \* <<>> or <<[full, portion, actual]>>
    discount,        \* <<>> or <<factors>>
    pv,              \* <<>> or <<[pv, cum]>>
    total_loss,      \* <<>> or <<number>>
    summary,         \* <<>> or <<summary dict>>
    returned,        \* <<>> or <<result dict>>
    cases,           \* the ./cases directory: case_id -> set of files (absent id = no directory)
    loads,           \* how many times Table01.xlsx was read in this process
    run,             \* number of the run_case call in this process
    call,            \* a direct call of one of the helper functions (unit harness)
    other            \* a second run_case execution of the process, while it is not running

vars == <<config, table_file, pc, err, age_years, audit_log, life, worklife, wage,
          projections, discount, pv, total_loss, summary, returned, cases, loads,
          run, call, other>>

-----------------------------------------------------------------------------
(* Exact rational arithmetic *)

None == <<>>

Some(v) == <<v>>

Abs(i) == IF i < 0 THEN -i ELSE i

RECURSIVE GCD(_, _)
GCD(a, b) == IF b = 0 THEN a ELSE GCD(b, a % b)

RNorm(n, d) ==
    LET s == IF d < 0 THEN -1 ELSE 1
        g == GCD(Abs(n), Abs(d))
    IN  <<(s * n) \div g, (s * d) \div g>>

R(n, d) == RNorm(n, d)

RInt(i) == <<i, 1>>

RZero == <<0, 1>>

ROne == <<1, 1>>

RNeg(a) == <<-a[1], a[2]>>

RAdd(a, b) ==
    LET g == GCD(a[2], b[2])
    IN  RNorm(a[1] * (b[2] \div g) + b[1] * (a[2] \div g), (a[2] \div g) * b[2])

RSub(a, b) == RAdd(a, RNeg(b))

RMul(a, b) ==
    LET g1 == GCD(Abs(a[1]), b[2])
        g2 == GCD(Abs(b[1]), a[2])
    IN  RNorm((a[1] \div g1) * (b[1] \div g2), (a[2] \div g2) * (b[2] \div g1))

RInv(a) == IF a[1] < 0 THEN <<-a[2], -a[1]>> ELSE <<a[2], a[1]>>

RDiv(a, b) == RMul(a, RInv(b))

RFloor(a) == a[1] \div a[2]

\* a < b, by comparing integer parts and then the reciprocals of the remainders
RECURSIVE RLess(_, _)
RLess(a, b) ==
    LET fa == RFloor(a)
        fb == RFloor(b)
        ra == a[1] % a[2]
        rb == b[1] % b[2]
    IN  IF fa # fb THEN fa < fb
        ELSE IF rb = 0 THEN FALSE
        ELSE IF ra = 0 THEN TRUE
        ELSE RLess(<<b[2], rb>>, <<a[2], ra>>)

RLeq(a, b) == ~RLess(b, a)

RMax(a, b) == IF RLess(a, b) THEN b ELSE a

RECURSIVE RPow(_, _)
RPow(a, t) == IF t = 0 THEN ROne ELSE RMul(a, RPow(a, t - 1))

RECURSIVE RSum(_)
RSum(s) == IF s = <<>> THEN RZero ELSE RAdd(Head(s), RSum(Tail(s)))

Ones(k) == [i \in 1..k |-> ROne]

-----------------------------------------------------------------------------
(* datetime.strptime(s, "%Y-%m-%d") and date subtraction.  A date string is *)
(* the tuple of its dash-separated numeric fields.                          *)

IsLeap(y) == (y % 4 = 0) /\ ((y % 100 # 0) \/ (y % 400 = 0))

DaysInMonth(y, m) ==
    IF m = 2 THEN (IF IsLeap(y) THEN 29 ELSE 28)
    ELSE IF m \in {4, 6, 9, 11} THEN 30 ELSE 31

\* strptime raises ValueError unless the string has the three fields of the
\* format and they name a calendar day
strptime_ok(s) ==
    /\ Len(s) = 3
    /\ s[1] \in 1..9999
    /\ s[2] \in 1..12
    /\ s[3] \in 1..DaysInMonth(s[1], s[2])

RECURSIVE DaysBeforeMonth(_, _)
DaysBeforeMonth(y, m) ==
    IF m = 1 THEN 0 ELSE DaysBeforeMonth(y, m - 1) + DaysInMonth(y, m - 1)

toordinal(s) ==
    LET y == s[1] - 1
    IN  y * 365 + (y \div 4) - (y \div 100) + (y \div 400)
          + DaysBeforeMonth(s[1], s[2]) + s[3]

\* age_days = (dod - dob).days ; age_years = age_days / 365.25
age_from_dates(dob, dod) == R(4 * (toordinal(dod) - toordinal(dob)), 1461)

-----------------------------------------------------------------------------
(* Helper functions of src/main.py *)

FallbackLifeSpan == <<392, 5>>       \* 78.4

Epsilon == <<1, 1000000>>            \* 1e-6

default_retirement_age_hint == <<65, 1>>

default_growth_rate == <<7, 250>>    \* 0.028

default_discount_rate == <<37, 1000>> \* 0.037

\* _load_life_table after the existence test: keep the rows whose Age holds a
\* dash (an interval "45-46", here <<45, 46>>) and take the first number
load_life_table(file) ==
    LET kept == SelectSeq(file[1], LAMBDA r : Len(r.Age) = 2)
    IN  [i \in 1..Len(kept) |-> [age_int |-> kept[i].Age[1], ex |-> kept[i].ex]]

\* mutant: the value of the floor-age row is used without interpolation
table_life_expectancy_flat(table, age) ==
    LET ex_row == SelectSeq(table, LAMBDA r : r.age_int = RFloor(age))
    IN  IF ex_row = <<>> THEN RMax(RZero, RSub(FallbackLifeSpan, age))
        ELSE ex_row[1].ex

\* the else-branch of _compute_life_expectancy, given the loaded table
table_life_expectancy(table, age) ==
    LET age_floor == RFloor(age)
        ex_row    == SelectSeq(table, LAMBDA r : r.age_int = age_floor)
        next_row  == SelectSeq(table, LAMBDA r : r.age_int = age_floor + 1)
        ex0       == ex_row[1].ex
        frac      == RSub(age, RInt(age_floor))
    IN  IF ex_row = <<>> THEN RMax(RZero, RSub(FallbackLifeSpan, age))
        ELSE IF next_row # <<>>
             THEN RSub(ex0, RMul(frac, RSub(ex0, next_row[1].ex)))
             ELSE ex0

\* mutant: the remainder is appended when it reaches 1e-6 (>= for >)
life_fractions_inclusive(life_expectancy) ==
    LET whole_years == RFloor(life_expectancy)
        fractional  == RSub(life_expectancy, RInt(whole_years))
    IN  IF RLeq(Epsilon, fractional)
        THEN Append(Ones(whole_years), fractional)
        ELSE Ones(whole_years)

\* survival fractions built at the end of _compute_life_expectancy
life_fractions(life_expectancy) ==
    LET whole_years == RFloor(life_expectancy)
        fractional  == RSub(life_expectancy, RInt(whole_years))
    IN  IF RLess(Epsilon, fractional)
        THEN Append(Ones(whole_years), fractional)
        ELSE Ones(whole_years)

\* _compute_life_expectancy: raised names the exception that leaves the
\* function ("" when it returns), loaded says whether the table file was read
compute_life_expectancy(age, sex, override_years, file) ==
    IF override_years # None
    THEN [raised |-> "", loaded |-> 0, years |-> override_years[1],
          fractions |-> life_fractions(override_years[1])]
    ELSE IF file = None
    THEN [raised |-> "FileNotFoundError", loaded |-> 0, years |-> RZero,
          fractions |-> <<>>]
    ELSE LET le == table_life_expectancy(load_life_table(file), age)
         IN  [raised |-> "", loaded |-> 1, years |-> le,
              fractions |-> life_fractions(le)]

\* mutant: every non-zero remainder is appended, however small
worklife_portions_no_epsilon(wle) ==
    LET whole_years == RFloor(wle)
        fractional  == RSub(wle, RInt(whole_years))
    IN  IF RLess(RZero, fractional)
        THEN Append(Ones(whole_years), fractional)
        ELSE Ones(whole_years)

\* portions built at the end of _compute_worklife_expectancy
worklife_portions(wle) ==
    LET whole_years == RFloor(wle)
        fractional  == RSub(wle, RInt(whole_years))
    IN  IF RLess(Epsilon, fractional)
        THEN Append(Ones(whole_years), fractional)
        ELSE Ones(whole_years)

\* mutant: an inactive decedent is given no remaining worklife
worklife_years_by_status(age, retirement_age_hint, active_status, education_level, override) ==
    IF override # None THEN override[1]
    ELSE IF active_status = "inactive" THEN RZero
    ELSE RMax(RZero, RSub(retirement_age_hint, age))

\* the wle value of _compute_worklife_expectancy
worklife_years(age, retirement_age_hint, active_status, education_level, override) ==
    IF override # None THEN override[1]
    ELSE RMax(RZero, RSub(retirement_age_hint, age))

compute_worklife_expectancy(age, retirement_age_hint, active_status, education_level, override) ==
    LET wle == worklife_years(age, retirement_age_hint, active_status, education_level, override)
    IN  [years |-> wle, fractions |-> worklife_portions(wle)]

\* the backward loop of _compute_wage_growth_series: k wages, oldest first,
\* the last one being current_salary
RECURSIVE wage_list(_, _, _)
wage_list(current_salary, growth_rate, k) ==
    IF k = 0 THEN <<>>
    ELSE Append(wage_list(RDiv(current_salary, RAdd(ROne, growth_rate)), growth_rate, k - 1),
                current_salary)

\* mutant: the growth is taken relative to the later year
yoy_growth_on_cur(prev, cur) ==
    IF prev # RZero /\ cur # RZero THEN RDiv(RSub(cur, prev), cur) ELSE RZero

\* yoy = (cur - prev) / prev if prev else 0.0
yoy_growth(prev, cur) ==
    IF prev # RZero THEN RDiv(RSub(cur, prev), prev) ELSE RZero

yoy_rates(wages) ==
    [i \in 1..(Len(wages) - 1) |-> yoy_growth(wages[i], wages[i + 1])]

\* avg_growth = sum(yoy_rates) / len(yoy_rates) if yoy_rates else 0.0
avg_growth_of(rates) ==
    IF rates # <<>> THEN RDiv(RSum(rates), RInt(Len(rates))) ELSE RZero

\* _compute_wage_growth_series; current_salary /= (1 + growth_rate) raises
\* ZeroDivisionError in the first pass of the loop when 1 + growth_rate = 0
compute_wage_growth_series(base_salary, growth_rate, years) ==
    IF years > 0 /\ RAdd(ROne, growth_rate) = RZero
    THEN [raised |-> "ZeroDivisionError", wages |-> <<>>, yoy |-> <<>>, avg |-> RZero]
    ELSE LET wages == wage_list(base_salary, growth_rate, years)
             rates == yoy_rates(wages)
         IN  [raised |-> "", wages |-> wages, yoy |-> rates, avg |-> avg_growth_of(rates)]

\* mutant: the growth is applied in the first pass too
RECURSIVE full_year_values_eager(_, _, _)
full_year_values_eager(base_salary, growth_rate, n) ==
    IF n <= 0 THEN <<>>
    ELSE IF n = 1 THEN <<RMul(base_salary, RAdd(ROne, growth_rate))>>
    ELSE LET before == full_year_values_eager(base_salary, growth_rate, n - 1)
         IN  Append(before, RMul(before[n - 1], RAdd(ROne, growth_rate)))

\* the running value `current` of _compute_projections after each pass
RECURSIVE full_year_values(_, _, _)
full_year_values(base_salary, growth_rate, n) ==
    IF n <= 0 THEN <<>>
    ELSE IF n = 1 THEN <<RMul(base_salary, ROne)>>
    ELSE LET before == full_year_values(base_salary, growth_rate, n - 1)
         IN  Append(before, RMul(before[n - 1], RAdd(ROne, growth_rate)))

compute_projections(base_salary, growth_rate, portions) ==
    LET full == full_year_values(base_salary, growth_rate, Len(portions))
    IN  [full    |-> full,
         portion |-> portions,
         actual  |-> [i \in 1..Len(portions) |-> RMul(full[i], portions[i])]]

\* _compute_discount_factors: 1.0 / ((1 + discount_rate) ** t) for t in range(n);
\* x ** 0 is 1.0 for every x, and the division raises when the power is 0
compute_discount_factors(discount_rate, n) ==
    LET base == RAdd(ROne, discount_rate)
    IN  IF \E t \in 0..(n - 1) : RPow(base, t) = RZero
        THEN [raised |-> "ZeroDivisionError", factors |-> <<>>]
        ELSE [raised |-> "",
              factors |-> [i \in 1..n |-> RDiv(ROne, RPow(base, i - 1))]]

\* mutant: the running sum is overwritten by each year's value (cum = present)
cumulative_overwritten(values) == values

\* the running sum `cum` of _compute_present_values
RECURSIVE cumulative(_)
cumulative(values) ==
    IF values = <<>> THEN <<>>
    ELSE LET n      == Len(values)
             before == cumulative(SubSeq(values, 1, n - 1))
         IN  Append(before, RAdd(IF n = 1 THEN RZero ELSE before[n - 1], values[n]))

\* _compute_present_values; discount_factors[i] raises IndexError when the
\* factor list is the shorter one
compute_present_values(actual_values, discount_factors) ==
    IF Len(discount_factors) < Len(actual_values)
    THEN [raised |-> "IndexError", pv |-> <<>>, cum |-> <<>>]
    ELSE LET present == [i \in 1..Len(actual_values) |->
                            RMul(actual_values[i], discount_factors[i])]
         IN  [raised |-> "", pv |-> present, cum |-> cumulative(present)]

-----------------------------------------------------------------------------
(* Inputs: the config dicts and the table files the model is run on *)

MaxRuns == 2

required_person_fields == {"first_name", "last_name", "sex", "dob", "dod"}

required_occ_fields == {"soc_code", "title", "county", "state", "base_salary_usd"}

PersonKeys == required_person_fields \cup {"education_level", "active_status"}

CaseIds == {"case_001", "case_002"}

\* born 1960-01-01; death on 2024-01-01 is age 64 exactly (23376 days),
\* death on 2024-07-01 is age 23558 / 365.25
Birth == <<1960, 1, 1>>

Deaths == {<<2024, 1, 1>>, <<2024, 7, 1>>}

\* "2024-13-01", "2023-02-29", "2024-01"
MalformedDates == {<<2024, 13, 1>>, <<2023, 2, 29>>, <<2024, 1>>}

Hints == {None, Some(R(64, 1)), Some(R(133, 2))}

LifeOverrides == {None, Some(R(5, 2))}

WorklifeOverrides == {None, Some(RZero), Some(R(5, 2)), Some(R(-3, 2)),
                      Some(R(20000001, 10000000))}

GrowthOverrides == {None, Some(RZero), Some(R(1, 2)), Some(R(-1, 1))}

DiscountOverrides == {None, Some(RZero), Some(R(1, 4)), Some(R(-1, 1))}

Salaries == {RZero, R(100, 1)}

\* Table01.xlsx: absent; no usable row; rows for ages 64 and 65 and the
\* closing "100 and over" row; a row for age 64 only
TableFiles ==
    { None,
      Some(<< [Age |-> <<100>>, ex |-> R(23, 10)] >>),
      Some(<< [Age |-> <<64, 65>>, ex |-> R(20, 1)],
              [Age |-> <<65, 66>>, ex |-> R(96, 5)],
              [Age |-> <<100>>, ex |-> R(23, 10)] >>),
      Some(<< [Age |-> <<64, 65>>, ex |-> R(20, 1)] >>) }

\* With the default rates (7/250, 37/1000) the wage and present-value
\* fractions of a non-zero salary leave the model checker's integer range,
\* so the defaults are exercised with a zero salary.
InRange(c) ==
    (c.growth_ov = None \/ c.discount_ov = None) => c.base_salary_usd = RZero

NumericConfigs ==
    { c \in [ case_id : {"case_001"}, person : {PersonKeys},
              occupation : {required_occ_fields},
              dob : {Birth}, dod : Deaths, sex : {"male"},
              active_status : {"active"}, education_level : {"BA"},
              base_salary_usd : Salaries, hint : Hints,
              le_ov : LifeOverrides, wle_ov : WorklifeOverrides,
              growth_ov : GrowthOverrides, discount_ov : DiscountOverrides ] :
        InRange(c) }

PlainConfig ==
    [ case_id |-> "case_001", person |-> PersonKeys, occupation |-> required_occ_fields,
      dob |-> Birth, dod |-> <<2024, 1, 1>>, sex |-> "male",
      active_status |-> "active", education_level |-> "BA",
      base_salary_usd |-> R(100, 1), hint |-> None,
      le_ov |-> None, wle_ov |-> None,
      growth_ov |-> Some(R(1, 2)), discount_ov |-> Some(R(1, 4)) ]

\* configs that differ from the plain one in the person / occupation blocks
FieldConfigs ==
    { [PlainConfig EXCEPT !.person = PersonKeys \ {k}] : k \in PersonKeys }
    \cup { [PlainConfig EXCEPT !.occupation = required_occ_fields \ {k}] :
             k \in required_occ_fields }
    \cup { [PlainConfig EXCEPT !.dob = d] : d \in MalformedDates }
    \cup { [PlainConfig EXCEPT !.dod = d] : d \in MalformedDates }
    \cup { [PlainConfig EXCEPT !.active_status = a, !.education_level = e, !.sex = x] :
             a \in {"active", "inactive"}, e \in {"BA", "Other"}, x \in {"male", "female"} }

\* configs with a negative salary, and with a discount rate below zero
SignedConfigs ==
    { [PlainConfig EXCEPT !.base_salary_usd = R(-100, 1), !.hint = Some(R(133, 2)),
                          !.growth_ov = g, !.discount_ov = d] :
        g \in {Some(R(1, 2)), Some(R(-3, 2))}, d \in {Some(R(1, 4)), Some(R(-1, 2))} }

Configs == NumericConfigs \cup FieldConfigs \cup SignedConfigs

\* configs of the later run_case calls of a process
RerunConfigs ==
    { [PlainConfig EXCEPT !.case_id = i, !.le_ov = l, !.hint = h] :
        i \in CaseIds, l \in LifeOverrides, h \in {None, Some(R(64, 1))} }

-----------------------------------------------------------------------------
(* run_case *)

Idle == [fn |-> "none"]

\* no second execution in the process
NoOther == [pc |-> "absent"]

FreshRun ==
    /\ pc = "Validating"
    /\ err = ""
    /\ age_years = None
    /\ audit_log = <<>>
    /\ life = None
    /\ worklife = None
    /\ wage = None
    /\ projections = None
    /\ discount = None
    /\ pv = None
    /\ total_loss = None
    /\ summary = None
    /\ returned = None

Init ==
    /\ config \in Configs
    /\ table_file \in TableFiles
    /\ FreshRun
    /\ cases = {}
    /\ loads = 0
    /\ run = 1
    /\ call = Idle
    /\ other = NoOther

\* an exception leaves run_case: nothing else changes
Raise(e) ==
    /\ pc' = "Failed"
    /\ err' = e

\* config.get("assumptions", {}).get(key, default)
growth_rate_of(c) ==
    IF c.growth_ov # None THEN c.growth_ov[1] ELSE default_growth_rate

discount_rate_of(c) ==
    IF c.discount_ov # None THEN c.discount_ov[1] ELSE default_discount_rate

retirement_age_hint_of(c) ==
    IF c.hint # None THEN c.hint[1] ELSE default_retirement_age_hint

active_status_of(c) ==
    IF "active_status" \in c.person THEN c.active_status ELSE "active"

education_level_of(c) ==
    IF "education_level" \in c.person THEN c.education_level ELSE "Other"

\* mutant: the loop over the person fields stops before "dod"
missing_person_fields_short(c) == (required_person_fields \ {"dod"}) \ c.person

\* the fields whose absence raises ValueError at the top of run_case
missing_person_fields(c) == required_person_fields \ c.person

missing_occ_fields(c) == required_occ_fields \ c.occupation

LifeTableSource == "Life table source: 2023 NVSR Table 1 (total population)"

TreasurySource == "Treasury rate source: YCharts 1-Year Treasury Rate page"

\* lines 560-577: required fields, date parsing, age, the two audit entries
Validate ==
    /\ pc = "Validating"
    /\ IF missing_person_fields(config) # {} \/ missing_occ_fields(config) # {}
       THEN Raise("ValueError") /\ UNCHANGED <<age_years, audit_log>>
       ELSE IF ~strptime_ok(config.dob) \/ ~strptime_ok(config.dod)
       THEN Raise("ValueError") /\ UNCHANGED <<age_years, audit_log>>
       ELSE /\ age_years' = Some(age_from_dates(config.dob, config.dod))
            /\ audit_log' = Append(Append(audit_log, LifeTableSource), TreasurySource)
            /\ pc' = "Dated"
            /\ err' = err
    /\ UNCHANGED <<config, table_file, life, worklife, wage, projections, discount,
                   pv, total_loss, summary, returned, cases, loads, run, call, other>>

\* lines 580-590
EstimateLife ==
    /\ pc = "Dated"
    /\ LET r == compute_life_expectancy(age_years[1], config.sex, config.le_ov, table_file)
       IN  IF r.raised # ""
           THEN Raise(r.raised) /\ UNCHANGED <<life, loads>>
           ELSE /\ life' = Some([years |-> r.years, fractions |-> r.fractions])
                /\ loads' = loads + r.loaded
                /\ pc' = "LifeEstimated"
                /\ err' = err
    /\ UNCHANGED <<config, table_file, age_years, audit_log, worklife, wage, projections,
                   discount, pv, total_loss, summary, returned, cases, run, call, other>>

\* mutant: the default hint is stored into the caller's config (setdefault)
EstimateWorklife_setdefault ==
    /\ pc = "LifeEstimated"
    /\ config' = [config EXCEPT !.hint = Some(retirement_age_hint_of(config))]
    /\ worklife' = Some(compute_worklife_expectancy(age_years[1],
                            retirement_age_hint_of(config), active_status_of(config),
                            education_level_of(config), config.wle_ov))
    /\ pc' = "WorklifeEstimated"
    /\ UNCHANGED <<table_file, err, age_years, audit_log, life, wage, projections,
                   discount, pv, total_loss, summary, returned, cases, loads, run, call, other>>

\* lines 592-604
EstimateWorklife ==
    /\ pc = "LifeEstimated"
    /\ worklife' = Some(compute_worklife_expectancy(age_years[1],
                            retirement_age_hint_of(config), active_status_of(config),
                            education_level_of(config), config.wle_ov))
    /\ pc' = "WorklifeEstimated"
    /\ UNCHANGED <<config, table_file, err, age_years, audit_log, life, wage, projections,
                   discount, pv, total_loss, summary, returned, cases, loads, run, call, other>>

WageWindow == 7

\* lines 606-615
ReconstructWages ==
    /\ pc = "WorklifeEstimated"
    /\ LET r == compute_wage_growth_series(config.base_salary_usd, growth_rate_of(config),
                                           WageWindow)
       IN  IF r.raised # ""
           THEN Raise(r.raised) /\ UNCHANGED wage
           ELSE /\ wage' = Some([wages |-> r.wages, yoy |-> r.yoy, avg |-> r.avg])
                /\ pc' = "WageReconstructed"
                /\ err' = err
    /\ UNCHANGED <<config, table_file, age_years, audit_log, life, worklife, projections,
                   discount, pv, total_loss, summary, returned, cases, loads, run, call, other>>

\* mutant: the projection is cut off at the life expectancy horizon
Project_capped ==
    /\ pc = "WageReconstructed"
    /\ projections' = Some(compute_projections(config.base_salary_usd,
                               growth_rate_of(config),
                               SubSeq(worklife[1].fractions, 1,
                                      IF Len(life[1].fractions) < Len(worklife[1].fractions)
                                      THEN Len(life[1].fractions)
                                      ELSE Len(worklife[1].fractions))))
    /\ pc' = "Projected"
    /\ UNCHANGED <<config, table_file, err, age_years, audit_log, life, worklife, wage,
                   discount, pv, total_loss, summary, returned, cases, loads, run, call, other>>

\* lines 616-621
Project ==
    /\ pc = "WageReconstructed"
    /\ projections' = Some(compute_projections(config.base_salary_usd,
                               growth_rate_of(config), worklife[1].fractions))
    /\ pc' = "Projected"
    /\ UNCHANGED <<config, table_file, err, age_years, audit_log, life, worklife, wage,
                   discount, pv, total_loss, summary, returned, cases, loads, run, call, other>>

\* lines 622-626
Discount ==
    /\ pc = "Projected"
    /\ LET r == compute_discount_factors(discount_rate_of(config),
                                         Len(projections[1].actual))
       IN  IF r.raised # ""
           THEN Raise(r.raised) /\ UNCHANGED discount
           ELSE /\ discount' = Some(r.factors)
                /\ pc' = "Discounted"
                /\ err' = err
    /\ UNCHANGED <<config, table_file, age_years, audit_log, life, worklife, wage,
                   projections, pv, total_loss, summary, returned, cases, loads, run, call, other>>

\* lines 627-629: the present values, then pv_df["CumulativePV"].iloc[-1],
\* which raises IndexError on an empty table
Aggregate ==
    /\ pc = "Discounted"
    /\ LET r == compute_present_values(projections[1].actual, discount[1])
       IN  IF r.raised # ""
           THEN Raise(r.raised) /\ UNCHANGED <<pv, total_loss>>
           ELSE IF r.cum = <<>>
           THEN Raise("IndexError") /\ UNCHANGED <<pv, total_loss>>
           ELSE /\ pv' = Some([pv |-> r.pv, cum |-> r.cum])
                /\ total_loss' = Some(r.cum[Len(r.cum)])
                /\ pc' = "Aggregated"
                /\ err' = err
    /\ UNCHANGED <<config, table_file, age_years, audit_log, life, worklife, wage,
                   projections, discount, summary, returned, cases, loads, run, call, other>>

Hundred == <<100, 1>>

\* lines 631-648
Summarize ==
    /\ pc = "Aggregated"
    /\ summary' = Some([life_expectancy_years    |-> life[1].years,
                        worklife_remaining_years |-> worklife[1].years,
                        avg_wage_growth_pct      |-> RMul(wage[1].avg, Hundred),
                        discount_rate_pct        |-> RMul(discount_rate_of(config), Hundred),
                        total_economic_loss_usd  |-> total_loss[1]])
    /\ pc' = "Summarized"
    /\ UNCHANGED <<config, table_file, err, age_years, audit_log, life, worklife, wage,
                   projections, discount, pv, total_loss, returned, cases, loads, run, call, other>>

\* the ./cases tree after this run writes `name` (the directory itself is "")
\* under ./cases/<case_id>/
Written(name) == {f \in cases : ~(f.case_id = config.case_id /\ f.name = name)}
                     \cup {[case_id |-> config.case_id, name |-> name, by |-> run]}

\* lines 649-651: os.makedirs(case_dir, exist_ok=True)
MakeCaseDir ==
    /\ pc = "Summarized"
    /\ cases' = IF \E f \in cases : f.case_id = config.case_id /\ f.name = ""
                THEN cases ELSE Written("")
    /\ pc' = "CaseDirMade"
    /\ UNCHANGED <<config, table_file, err, age_years, audit_log, life, worklife, wage,
                   projections, discount, pv, total_loss, summary, returned, loads, run, call, other>>

\* lines 652-667
WriteExcel ==
    /\ pc = "CaseDirMade"
    /\ cases' = Written("forensic_loss.xlsx")
    /\ pc' = "ExcelWritten"
    /\ UNCHANGED <<config, table_file, err, age_years, audit_log, life, worklife, wage,
                   projections, discount, pv, total_loss, summary, returned, loads, run, call, other>>

\* lines 668-674: the memo text reads inputs['assumptions']['retirement_age_hint'],
\* a KeyError when the config carries no hint
WriteMemo ==
    /\ pc = "ExcelWritten"
    /\ IF config.hint = None
       THEN Raise("KeyError") /\ UNCHANGED cases
       ELSE /\ cases' = Written("forensic_memo.pdf")
            /\ pc' = "MemoWritten"
            /\ err' = err
    /\ UNCHANGED <<config, table_file, age_years, audit_log, life, worklife, wage,
                   projections, discount, pv, total_loss, summary, returned, loads, run, call, other>>

\* lines 675-693
WriteSummaryJson ==
    /\ pc = "MemoWritten"
    /\ cases' = Written("summary.json")
    /\ pc' = "JsonWritten"
    /\ UNCHANGED <<config, table_file, err, age_years, audit_log, life, worklife, wage,
                   projections, discount, pv, total_loss, summary, returned, loads, run, call, other>>

AuditNotes ==
    << "Life expectancy approximated using total population table due to access limitations",
       "Worklife expectancy derived from retirement age hint",
       "Wage series synthesised using assumed growth rate" >>

\* lines 694-711
Return ==
    /\ pc = "JsonWritten"
    /\ returned' = Some([case_id |-> config.case_id, summary |-> summary[1],
                         sources |-> audit_log, notes |-> AuditNotes])
    /\ pc' = "Returned"
    /\ UNCHANGED <<config, table_file, err, age_years, audit_log, life, worklife, wage,
                   projections, discount, pv, total_loss, summary, cases, loads, run, call, other>>

\* the process calls run_case again: the files and the load count stay
NewRun ==
    /\ pc \in {"Returned", "Failed"}
    /\ run < MaxRuns
    /\ config' \in RerunConfigs
    /\ run' = run + 1
    /\ pc' = "Validating"
    /\ err' = ""
    /\ age_years' = None
    /\ audit_log' = <<>>
    /\ life' = None
    /\ worklife' = None
    /\ wage' = None
    /\ projections' = None
    /\ discount' = None
    /\ pv' = None
    /\ total_loss' = None
    /\ summary' = None
    /\ returned' = None
    /\ UNCHANGED <<table_file, cases, loads, call, other>>

Next ==
    \/ Validate
    \/ EstimateLife
    \/ EstimateWorklife
    \/ ReconstructWages
    \/ Project
    \/ Discount
    \/ Aggregate
    \/ Summarize
    \/ MakeCaseDir
    \/ WriteExcel
    \/ WriteMemo
    \/ WriteSummaryJson
    \/ Return
    \/ NewRun

Spec == Init /\ [][Next]_vars

-----------------------------------------------------------------------------
(* Two run_case executions of one process, interleaved. Each execution has
   its own locals; the ./cases directory, Table01.xlsx and the load count
   belong to the process. The execution that is not running is kept in
   `other`; Switch hands the processor to it. *)

ConcConfigs ==
    { [PlainConfig EXCEPT !.case_id = i, !.hint = Some(R(133, 2)), !.le_ov = l,
                          !.base_salary_usd = b] :
        i \in CaseIds, l \in {None, Some(R(1, 2))}, b \in {R(100, 1), R(200, 1)} }

\* the locals of an execution that has not started
Suspended(c, r) ==
    [config |-> c, pc |-> "Validating", err |-> "", age_years |-> None,
     audit_log |-> <<>>, life |-> None, worklife |-> None, wage |-> None,
     projections |-> None, discount |-> None, pv |-> None, total_loss |-> None,
     summary |-> None, returned |-> None, run |-> r]

ConcInit ==
    /\ config \in ConcConfigs
    /\ table_file = Some(<<[Age |-> <<64, 65>>, ex |-> R(20, 1)] >>)
    /\ FreshRun
    /\ cases = {}
    /\ loads = 0
    /\ run = 1
    /\ call = Idle
    /\ \E c \in ConcConfigs : c # config /\ other = Suspended(c, 2)

Switch ==
    /\ other # NoOther
    /\ other' = [config |-> config, pc |-> pc, err |-> err, age_years |-> age_years,
                 audit_log |-> audit_log, life |-> life, worklife |-> worklife,
                 wage |-> wage, projections |-> projections, discount |-> discount,
                 pv |-> pv, total_loss |-> total_loss, summary |-> summary,
                 returned |-> returned, run |-> run]
    /\ config' = other.config
    /\ pc' = other.pc
    /\ err' = other.err
    /\ age_years' = other.age_years
    /\ audit_log' = other.audit_log
    /\ life' = other.life
    /\ worklife' = other.worklife
    /\ wage' = other.wage
    /\ projections' = other.projections
    /\ discount' = other.discount
    /\ pv' = other.pv
    /\ total_loss' = other.total_loss
    /\ summary' = other.summary
    /\ returned' = other.returned
    /\ run' = other.run
    /\ UNCHANGED <<table_file, cases, loads, call>>

ConcNext ==
    \/ Validate
    \/ EstimateLife
    \/ EstimateWorklife
    \/ ReconstructWages
    \/ Project
    \/ Discount
    \/ Aggregate
    \/ Summarize
    \/ MakeCaseDir
    \/ WriteExcel
    \/ WriteMemo
    \/ WriteSummaryJson
    \/ Return
    \/ Switch

ConcSpec == ConcInit /\ [][ConcNext]_vars

-----------------------------------------------------------------------------
(* Direct calls of the helper functions, as a unit test makes them: one   *)
(* call per behaviour, from the idle state                                *)

MaxHorizon == 3

UnitAges == {RZero, R(1, 2), R(639, 10), R(64, 1), R(129, 2), R(65, 1), R(261, 4),
             R(392, 5), R(80, 1)}

UnitYears == {RZero, R(1, 1000000), R(1, 10000000), R(2, 1000000), R(1, 2), R(1, 1),
              R(5, 2), R(3, 1), R(20000001, 10000000), R(2000001, 1000000),
              R(-3, 2), R(-1, 1)}

UnitHints == {RZero, R(64, 1), R(129, 2), R(65, 1), R(133, 2), R(67, 1)}

UnitRates == {R(-2, 1), R(-3, 2), R(-1, 1), R(-1, 2), RZero, R(1, 4), R(1, 2),
              R(1, 1), R(3, 1)}

UnitSalaries == {RZero, R(1, 1), R(100, 1), R(86900, 1), R(-100, 1)}

UnitWindows == {2, 3, WageWindow}

UnitPortions == {<<>>, <<ROne>>, <<R(1, 2)>>, <<ROne, ROne>>, <<ROne, R(1, 4)>>,
                 <<ROne, ROne, ROne>>, <<ROne, ROne, R(3, 4)>>,
                 <<ROne, ROne, ROne, ROne>>}

UnitAmounts == {<<>>, <<R(100, 1)>>, <<R(100, 1), R(150, 1)>>, <<RZero, RZero>>,
                <<R(100, 1), R(-50, 1), R(25, 2)>>, <<R(100, 1), R(150, 1), R(225, 1)>>}

UnitFactors == {<<>>, <<ROne>>, <<ROne, R(4, 5)>>, <<ROne, ROne>>,
                <<ROne, R(4, 5), R(16, 25)>>, <<ROne, R(2, 1), R(4, 1)>>}

UnitInit ==
    /\ config = PlainConfig
    /\ table_file = None
    /\ FreshRun
    /\ cases = {}
    /\ loads = 0
    /\ run = 1
    /\ call = Idle
    /\ other = NoOther

RunUntouched ==
    UNCHANGED <<config, table_file, pc, err, age_years, audit_log, life, worklife, wage,
                projections, discount, pv, total_loss, summary, returned, cases, loads, run,
                other>>

Call_compute_life_expectancy ==
    /\ call = Idle
    /\ \E age \in UnitAges, sex \in {"male", "female"},
          ov \in {None} \cup {Some(y) : y \in UnitYears}, file \in TableFiles :
          call' = [fn |-> "_compute_life_expectancy", age |-> age, sex |-> sex,
                   override |-> ov, file |-> file,
                   out |-> compute_life_expectancy(age, sex, ov, file)]
    /\ RunUntouched

Call_compute_worklife_expectancy ==
    /\ call = Idle
    /\ \E age \in UnitAges, hint \in UnitHints, st \in {"active", "inactive"},
          ed \in {"HS", "BA", "Other"}, ov \in {None} \cup {Some(y) : y \in UnitYears} :
          call' = [fn |-> "_compute_worklife_expectancy", age |-> age, hint |-> hint,
                   active_status |-> st, education_level |-> ed, override |-> ov,
                   out |-> compute_worklife_expectancy(age, hint, st, ed, ov)]
    /\ RunUntouched

\* both estimators handed the same years value
Call_both_estimators ==
    /\ call = Idle
    /\ \E y \in UnitYears, age \in {R(64, 1), R(129, 2)} :
          call' = [fn |-> "both_estimators", years |-> y,
                   life |-> compute_life_expectancy(age, "male", Some(y), None),
                   work |-> compute_worklife_expectancy(age, default_retirement_age_hint,
                                                        "active", "BA", Some(y))]
    /\ RunUntouched

Call_compute_wage_growth_series ==
    /\ call = Idle
    /\ \E base \in UnitSalaries, g \in UnitRates, years \in UnitWindows :
          call' = [fn |-> "_compute_wage_growth_series", base_salary |-> base,
                   growth_rate |-> g, years |-> years,
                   out |-> compute_wage_growth_series(base, g, years)]
    /\ RunUntouched

Call_compute_projections ==
    /\ call = Idle
    /\ \E base \in UnitSalaries, g \in UnitRates, portions \in UnitPortions :
          call' = [fn |-> "_compute_projections", base_salary |-> base,
                   growth_rate |-> g, portions |-> portions,
                   out |-> compute_projections(base, g, portions)]
    /\ RunUntouched

Call_compute_discount_factors ==
    /\ call = Idle
    /\ \E rate \in UnitRates \cup {default_discount_rate}, n \in 0..MaxHorizon :
          call' = [fn |-> "_compute_discount_factors", discount_rate |-> rate, n |-> n,
                   out |-> compute_discount_factors(rate, n)]
    /\ RunUntouched

Call_compute_present_values ==
    /\ call = Idle
    /\ \E actual \in UnitAmounts, factors \in UnitFactors :
          call' = [fn |-> "_compute_present_values", actual_values |-> actual,
                   discount_factors |-> factors,
                   out |-> compute_present_values(actual, factors)]
    /\ RunUntouched

UnitNext ==
    \/ Call_compute_life_expectancy
    \/ Call_compute_worklife_expectancy
    \/ Call_both_estimators
    \/ Call_compute_wage_growth_series
    \/ Call_compute_projections
    \/ Call_compute_discount_factors
    \/ Call_compute_present_values

UnitSpec == UnitInit /\ [][UnitNext]_vars

-----------------------------------------------------------------------------
(* Claims about run_case *)

\* the run computes a life expectancy without hitting the missing table file
LifeTableUsable == table_file # None \/ config.le_ov # None

\* C1 (the claim as stated): the Summary returned by run_case reports every
\* override found in the assumptions block exactly (years as given, rates
\* times 100), whatever the base salary and the other inputs are, and a run
\* with a life-expectancy override does not read the life table.
C1_SummaryReportsOverrides ==
    returned # None =>
        LET s == returned[1].summary
        IN  /\ config.le_ov # None => s.life_expectancy_years = config.le_ov[1]
            /\ config.wle_ov # None => s.worklife_remaining_years = config.wle_ov[1]
            /\ config.growth_ov # None =>
                   s.avg_wage_growth_pct = RMul(config.growth_ov[1], Hundred)
            /\ config.discount_ov # None =>
                   s.discount_rate_pct = RMul(config.discount_ov[1], Hundred)
            /\ (config.le_ov # None /\ run = 1) => loads = 0

\* the retirement hint equals the age at death and no worklife override is given
HintEqualsAge ==
    /\ age_years # None
    /\ config.hint # None
    /\ config.hint[1] = age_years[1]
    /\ config.wle_ov = None

\* C2 (the claim as stated): with the retirement hint equal to the age at
\* death and no worklife override, the run does not end in an error: worklife
\* is 0, the projections, discount-factor and present-value tables are empty
\* and the Summary reports a total economic loss of 0.  (Runs that stop for
\* another reason - no life table, growth rate -1 - are left out.)
C2_ZeroWorklifeCompletes ==
    (HintEqualsAge /\ LifeTableUsable /\ growth_rate_of(config) # R(-1, 1)) =>
        /\ pc # "Failed"
        /\ worklife # None => worklife[1].years = RZero
        /\ projections # None => projections[1].actual = <<>>
        /\ discount # None => discount[1] = <<>>
        /\ pv # None => pv[1].cum = <<>>
        /\ summary # None => summary[1].total_economic_loss_usd = RZero

\* C3 (the claim as stated): when Table01.xlsx is absent and no
\* life-expectancy override is given, the life stage of a validated run
\* yields max(0, 78.4 - age) instead of failing.
C3_MissingTableFallsBack ==
    (table_file = None /\ config.le_ov = None /\ age_years # None /\ pc # "Dated") =>
        /\ life # None
        /\ life[1].years = RMax(RZero, RSub(FallbackLifeSpan, age_years[1]))

MalformedDate == ~strptime_ok(config.dob) \/ ~strptime_ok(config.dod)

NothingProduced ==
    /\ age_years = None /\ life = None /\ worklife = None /\ wage = None
    /\ projections = None /\ discount = None /\ pv = None /\ total_loss = None
    /\ summary = None /\ returned = None
    /\ \A f \in cases : f.by # run

\* C4 (the claim as stated): a config missing any of the seven person fields
\* (education level and activity status included), any occupation field, or
\* carrying a malformed date ends in a validation error before any stage
\* runs and before any output.
C4_SevenPersonFieldsRequired ==
    ((PersonKeys \ config.person # {} \/ required_occ_fields \ config.occupation # {}
        \/ MalformedDate) /\ pc # "Validating") =>
        (pc = "Failed" /\ err = "ValueError" /\ NothingProduced)

\* C4 (amended): a config missing first_name, last_name, sex, dob or dod, or
\* soc_code, title, county, state or base_salary_usd, or carrying a malformed
\* date, ends in ValueError before any estimator stage runs and before any
\* output; a config that lacks only education_level or active_status passes
\* validation.
C4_ValidationHalts ==
    LET bad == \/ {"first_name", "last_name", "sex", "dob", "dod"} \ config.person # {}
               \/ {"soc_code", "title", "county", "state", "base_salary_usd"}
                      \ config.occupation # {}
               \/ MalformedDate
    IN  pc # "Validating" =>
            IF bad THEN pc = "Failed" /\ err = "ValueError" /\ NothingProduced
            ELSE age_years # None

C4_Witness ==
    /\ pc = "Failed"
    /\ err = "ValueError"
    /\ "dod" \notin config.person

\* C5 (the claim as stated): a run that passed validation does not end in an
\* error before its Summary is built, also for a zero horizon, a growth rate
\* of -1 and a discount rate of -1.  (Runs that stop on the missing life
\* table are left out.)
C5_NoFailureAfterValidation ==
    (pc = "Failed" /\ age_years # None /\ LifeTableUsable) => summary # None

-----------------------------------------------------------------------------
(* Claims about the helper functions *)

\* C6: without an override and with a loaded table, the life expectancy is
\* max(0, 78.4 - age) when the table has no row for floor(age), ex(floor)
\* when it has that row but none for floor(age) + 1, and
\* ex(floor) - frac * (ex(floor) - ex(floor + 1)) when it has both.
C6_LifeExpectancyReference ==
    (call.fn = "_compute_life_expectancy" /\ call.override = None /\ call.file # None) =>
        LET rows      == load_life_table(call.file)
            HasRow(a) == \E i \in 1..Len(rows) : rows[i].age_int = a
            Ex(a)     == rows[CHOOSE i \in 1..Len(rows) : rows[i].age_int = a].ex
            fl        == RFloor(call.age)
            frac      == RSub(call.age, RInt(fl))
            linear    == RSub(R(392, 5), call.age)
            ref       == IF ~HasRow(fl) THEN (IF RLess(linear, RZero) THEN RZero ELSE linear)
                         ELSE IF ~HasRow(fl + 1) THEN Ex(fl)
                         ELSE RSub(Ex(fl), RMul(frac, RSub(Ex(fl), Ex(fl + 1))))
        IN  call.out.raised = "" /\ call.out.years = ref

\* age 64.5 between the rows 64 -> 20 and 65 -> 19.2 gives 19.6
C6_Witness ==
    /\ call.fn = "_compute_life_expectancy"
    /\ call.override = None
    /\ call.age = R(129, 2)
    /\ call.out.years = R(98, 5)

\* C7: without a worklife override the remaining work-years are
\* max(0, retirement_age_hint - age), whatever the activity status and the
\* education level are.
C7_WorklifeProxy ==
    (call.fn = "_compute_worklife_expectancy" /\ call.override = None) =>
        LET gap == RSub(call.hint, call.age)
        IN  call.out.years = IF RLess(gap, RZero) THEN RZero ELSE gap

C7_Witness ==
    /\ call.fn = "_compute_worklife_expectancy"
    /\ call.override = None
    /\ call.active_status = "inactive"
    /\ call.education_level = "HS"
    /\ call.out.years = R(5, 2)

\* floor(years) entries of 1.0, then the remainder when it exceeds 1e-6
ExpectedFractions(years) ==
    LET k    == RFloor(years)
        rest == RSub(years, RInt(k))
        n    == IF RLess(R(1, 1000000), rest) THEN k + 1 ELSE k
    IN  [i \in 1..n |-> IF i <= k THEN ROne ELSE rest]

\* C8: for a non-negative years value both estimators return floor(years)
\* entries of 1.0 followed by the remainder if and only if it exceeds 1e-6,
\* and they return the same sequence for the same years value.
C8_TimeFractions ==
    /\ (call.fn = "_compute_life_expectancy" /\ call.out.raised = ""
           /\ RLeq(RZero, call.out.years)) =>
           call.out.fractions = ExpectedFractions(call.out.years)
    /\ (call.fn = "_compute_worklife_expectancy" /\ RLeq(RZero, call.out.years)) =>
           call.out.fractions = ExpectedFractions(call.out.years)
    /\ (call.fn = "both_estimators" /\ RLeq(RZero, call.years)) =>
           /\ call.life.years = call.years
           /\ call.work.years = call.years
           /\ call.life.fractions = call.work.fractions
           /\ call.work.fractions = ExpectedFractions(call.years)

\* 2.0000001 years: two whole years and a remainder below 1e-6
C8_Witness ==
    /\ call.fn = "both_estimators"
    /\ call.years = R(20000001, 10000000)
    /\ call.work.fractions = <<ROne, ROne>>

\* C9: for a positive base salary and a growth rate above -1 the last wage
\* of the series is the base salary, each earlier wage is the next one
\* divided by (1 + rate), and the mean of the reported year-over-year rates
\* is the growth rate; a zero prior-year wage gives a growth of 0, not a
\* failure.
C9_WageSeries ==
    call.fn = "_compute_wage_growth_series" =>
        LET o == call.out
            n == call.years
        IN  /\ (RLess(RZero, call.base_salary) /\ RLess(R(-1, 1), call.growth_rate)) =>
                   /\ o.raised = ""
                   /\ Len(o.wages) = n
                   /\ o.wages[n] = call.base_salary
                   /\ \A i \in 1..(n - 1) :
                          RMul(o.wages[i], RAdd(ROne, call.growth_rate)) = o.wages[i + 1]
                   /\ Len(o.yoy) = n - 1
                   /\ RSum(o.yoy) = RMul(call.growth_rate, RInt(n - 1))
                   /\ o.avg = call.growth_rate
            /\ (call.base_salary = RZero /\ call.growth_rate # R(-1, 1)) => o.raised = ""
            /\ o.raised = "" =>
                   \A i \in 1..Len(o.yoy) : o.wages[i] = RZero => o.yoy[i] = RZero

C9_Witness ==
    /\ call.fn = "_compute_wage_growth_series"
    /\ call.base_salary = R(86900, 1)
    /\ call.growth_rate = R(1, 2)
    /\ call.years = 7
    /\ call.out.avg = R(1, 2)
    /\ Len(call.out.yoy) = 6

\* C10 (the claim as stated): for every horizon N and rate the series has N
\* entries with factor[t] = 1 / (1 + rate)^t; factor[0] = 1; for rate >= 0
\* the series is non-increasing; for rate = 0 every factor is 1.
C10_DiscountFactors ==
    call.fn = "_compute_discount_factors" =>
        LET f == call.out.factors
            r == call.discount_rate
        IN  /\ call.out.raised = ""
            /\ Len(f) = call.n
            /\ \A i \in 1..Len(f) : RMul(f[i], RPow(RAdd(ROne, r), i - 1)) = ROne
            /\ Len(f) > 0 => f[1] = ROne
            /\ RLeq(RZero, r) => \A i \in 1..(Len(f) - 1) : RLeq(f[i + 1], f[i])
            /\ r = RZero => \A i \in 1..Len(f) : f[i] = ROne

\* C10, away from the failing input: the statement for every call but those
\* with rate = -1 and N >= 2, where the function raises ZeroDivisionError
C10_DiscountFactorsDefined ==
    (call.fn = "_compute_discount_factors"
        => (call.discount_rate # R(-1, 1) \/ call.n < 2)) => C10_DiscountFactors

-----------------------------------------------------------------------------
(* Claims C11 - C19 *)

\* C11: the present-value table has PresentValue[t] = earnings[t] * factor[t]
\* and CumulativePV[t] = PresentValue[0] + ... + PresentValue[t]; its last
\* cumulative value is the sum of all present values and is the total
\* economic loss run_case reports; with non-negative earnings and a
\* non-negative rate the cumulative column is non-decreasing.
C11_PresentValues ==
    pv # None =>
        LET a == projections[1].actual
            f == discount[1]
            p == pv[1].pv
            c == pv[1].cum
            n == Len(a)
        IN  /\ Len(f) = n /\ Len(p) = n /\ Len(c) = n
            /\ \A i \in 1..n : p[i] = RMul(a[i], f[i])
            /\ \A i \in 1..n : c[i] = RSum(SubSeq(p, 1, i))
            /\ total_loss = Some(RSum(p))
            /\ total_loss[1] = c[n]
            /\ summary # None => summary[1].total_economic_loss_usd = c[n]
            /\ returned # None => returned[1].summary.total_economic_loss_usd = c[n]
            /\ ((\A i \in 1..n : RLeq(RZero, a[i])) /\ RLeq(RZero, discount_rate_of(config)))
                   => \A i \in 1..(n - 1) : RLeq(c[i], c[i + 1])

\* three years of earnings 100, 150, 112.5 discounted at 25%: 100 + 120 + 72
C11_Witness ==
    /\ pc = "Returned"
    /\ Len(pv[1].cum) = 3
    /\ returned[1].summary.total_economic_loss_usd = R(292, 1)

\* C12: the projector returns one row per portion with full-year value[0] =
\* base salary, full-year value[i] = full-year value[i-1] * (1 + r) and
\* fraction-adjusted value[i] = full-year value[i] * portion[i]; with every
\* portion 1.0 the fraction-adjusted series is base * (1 + r)^t.
C12_Projections ==
    call.fn = "_compute_projections" =>
        LET o == call.out
            n == Len(call.portions)
            g == RAdd(ROne, call.growth_rate)
        IN  /\ Len(o.full) = n /\ Len(o.actual) = n /\ o.portion = call.portions
            /\ n > 0 => o.full[1] = call.base_salary
            /\ \A i \in 2..n : o.full[i] = RMul(o.full[i - 1], g)
            /\ \A i \in 1..n : o.actual[i] = RMul(o.full[i], call.portions[i])
            /\ (\A i \in 1..n : call.portions[i] = ROne) =>
                   \A i \in 1..n : o.actual[i] = RMul(call.base_salary, RPow(g, i - 1))

\* 100 at 50% growth over four full years: 100, 150, 225, 337.5
C12_Witness ==
    /\ call.fn = "_compute_projections"
    /\ call.base_salary = R(100, 1)
    /\ call.growth_rate = R(1, 2)
    /\ call.out.actual = <<R(100, 1), R(150, 1), R(225, 1), R(675, 2)>>

\* the smallest integer not below a rational
RCeil(x) == 0 - RFloor(RNeg(x))

\* the years value and the fractions an estimator call returned
EstimatorCall ==
    \/ call.fn = "_compute_life_expectancy" /\ call.out.raised = ""
    \/ call.fn = "_compute_worklife_expectancy"

\* C14 as stated: for every years value an estimator can return (computed
\* or override, values within 1e-6 above an integer and negative overrides
\* included) the fractions have length ceil(years) and every entry f has
\* 0 < f <= 1.
C14_LengthIsCeil ==
    EstimatorCall =>
        /\ Len(call.out.fractions) = RCeil(call.out.years)
        /\ \A i \in 1..Len(call.out.fractions) :
               RLess(RZero, call.out.fractions[i]) /\ RLeq(call.out.fractions[i], ROne)

\* C14 amended: the fractions have one entry per whole year of floor(years)
\* (none when it is negative) plus one entry when years - floor(years)
\* exceeds 1e-6; that is ceil(years) when years is non-negative and its
\* remainder is zero or exceeds 1e-6; every entry f has 0 < f <= 1.
C14_TimeFractionLength ==
    EstimatorCall =>
        LET years == call.out.years
            whole == RFloor(years)
            rest  == RSub(years, RInt(whole))
            fr    == call.out.fractions
        IN  /\ Len(fr) = (IF whole > 0 THEN whole ELSE 0)
                             + (IF RLess(Epsilon, rest) THEN 1 ELSE 0)
            /\ \A i \in 1..Len(fr) : RLess(RZero, fr[i]) /\ RLeq(fr[i], ROne)
            /\ (RLeq(RZero, years) /\ (rest = RZero \/ RLess(Epsilon, rest)))
                   => Len(fr) = RCeil(years)

\* an override of -1.5 years: one entry of 0.5 where ceil(years) is -1
C14_Witness ==
    /\ call.fn = "_compute_life_expectancy"
    /\ call.override = Some(R(-3, 2))
    /\ call.out.years = R(-3, 2)
    /\ call.out.fractions = <<R(1, 2)>>
    /\ RCeil(call.out.years) = -1

\* C13 (the claim as stated): over any sequence of runs in one process the
\* life table is loaded at most once.
C13_TableLoadedOnce == loads <= 1

\* C15 (the claim as stated, for rates other than -1): a worklife horizon of
\* zero or less, a negative override included, gives zero output without a
\* fault: no table holds positive earnings and the total loss is 0.
C15_NonPositiveHorizonZeroOutput ==
    (/\ worklife # None
     /\ RLeq(worklife[1].years, RZero)
     /\ growth_rate_of(config) # R(-1, 1)
     /\ discount_rate_of(config) # R(-1, 1)) =>
        /\ err # "IndexError"
        /\ projections # None =>
               \A i \in 1..Len(projections[1].actual) :
                   RLeq(projections[1].actual[i], RZero)
        /\ pc \in {"Aggregated", "Summarized", "Returned"} => total_loss = Some(RZero)

\* the run took the closed-form fallback of _compute_life_expectancy
FallbackTaken ==
    /\ life # None
    /\ config.le_ov = None
    /\ table_file # None
    /\ SelectSeq(load_life_table(table_file),
                 LAMBDA r : r.age_int = RFloor(age_years[1])) = <<>>

\* the entries of a returned audit log: its sources and its notes
EntriesOf(ret) ==
    {ret.sources[i] : i \in 1..Len(ret.sources)} \cup {ret.notes[i] : i \in 1..Len(ret.notes)}

\* the entries a run returns when it read the row of its age from the table
EntriesWithoutFallback ==
    {LifeTableSource, TreasurySource} \cup {AuditNotes[i] : i \in 1..Len(AuditNotes)}

\* C16 (the claim as stated): a run that used the closed-form fallback
\* returns an audit log or notes with an entry that records the substitution,
\* an entry that is there only because the fallback was taken.
C16_FallbackRecorded ==
    (returned # None /\ FallbackTaken) =>
        \E e \in EntriesOf(returned[1]) : e \notin EntriesWithoutFallback

\* every returned log holds the same five entries, fallback or not
C16_LogIsFixed ==
    returned # None => EntriesOf(returned[1]) = EntriesWithoutFallback

\* the stages of a run, in the order of run_case
Stages ==
    << "Validating", "Dated", "LifeEstimated", "WorklifeEstimated", "WageReconstructed",
       "Projected", "Discounted", "Aggregated", "Summarized" >>

StageIndex(p) == CHOOSE i \in 1..Len(Stages) : Stages[i] = p

IsStage(p) == \E i \in 1..Len(Stages) : Stages[i] = p

\* the outputs of the stages, in stage order (Validating has none)
StageOutputs == <<age_years, life, worklife, wage, projections, discount, pv, summary>>

\* at a stage the outputs of the stages up to it exist and no later one does
StageOutputsInOrder ==
    IsStage(pc) =>
        \A k \in 1..Len(StageOutputs) : (StageOutputs[k] # None) <=> (k < StageIndex(pc))

\* a step of one run moves to the next stage (or fails), leaves the outputs
\* of the earlier stages alone, and keeps the config
StageStep ==
    run' = run =>
        /\ config' = config
        /\ (IsStage(pc) /\ pc' # pc /\ pc' # "Failed") =>
               IF pc = "Summarized" THEN ~IsStage(pc')
               ELSE pc' = Stages[StageIndex(pc) + 1]
        /\ ~IsStage(pc) => ~IsStage(pc')
        /\ (age_years # None => age_years' = age_years)
        /\ (life # None => life' = life)
        /\ (worklife # None => worklife' = worklife)
        /\ (wage # None => wage' = wage)
        /\ (projections # None => projections' = projections)
        /\ (discount # None => discount' = discount)
        /\ (pv # None => pv' = pv)
        /\ (summary # None => summary' = summary)

\* C17: in every run the stages execute in the order Validating, Dated,
\* LifeEstimated, WorklifeEstimated, WageReconstructed, Projected,
\* Discounted, Aggregated, Summarized, each at most once and none skipped;
\* the output of a stage exists only once the stage has run and is not
\* changed by a later one; the config is never modified.
C17_StagesInOrder == []StageOutputsInOrder /\ [][StageStep]_vars

\* a second run of the process has reached the last stage
C17_Witness ==
    /\ pc = "Summarized"
    /\ run = 2
    /\ \A k \in 1..Len(StageOutputs) : StageOutputs[k] # None

\* the files run_case writes into its case directory
OutputFiles == {"forensic_loss.xlsx", "forensic_memo.pdf", "summary.json"}

\* C18 (the claim as stated, for the written outputs): when one of two
\* interleaved executions returns, the files of its case directory are the
\* ones it wrote, as when it runs alone, whatever the two configs are.
C18_OutputsAsAlone ==
    pc = "Returned" =>
        \A name \in OutputFiles :
            [case_id |-> config.case_id, name |-> name, by |-> run] \in cases

\* two configs that differ in nothing but the life-expectancy override
DifferOnlyInLife(c1, c2) == [c1 EXCEPT !.le_ov = None] = [c2 EXCEPT !.le_ov = None]

\* the number of rows of the worklife timeline of the running execution
WorklifeRows == Len(worklife[1].fractions)

\* C19: the projection horizon and the total loss depend on the worklife
\* timeline, the base salary and the two rates only: two runs that differ
\* only in life expectancy have the same worklife years, the same
\* projection, discount and present-value tables and the same total loss;
\* the horizon is not capped by life expectancy; and the three tables
\* have as many rows as the worklife timeline has fractions.
C19_LifeExpectancyUnused ==
    /\ projections # None =>
           /\ Len(projections[1].full) = WorklifeRows
           /\ Len(projections[1].portion) = WorklifeRows
           /\ Len(projections[1].actual) = WorklifeRows
    /\ discount # None => Len(discount[1]) = WorklifeRows
    /\ pv # None => Len(pv[1].pv) = WorklifeRows /\ Len(pv[1].cum) = WorklifeRows
    /\ (other # NoOther /\ DifferOnlyInLife(config, other.config)) =>
           /\ (worklife # None /\ other.worklife # None) => worklife = other.worklife
           /\ (projections # None /\ other.projections # None) =>
                  projections = other.projections
           /\ (discount # None /\ other.discount # None) => discount = other.discount
           /\ (pv # None /\ other.pv # None) => pv = other.pv
           /\ (total_loss # None /\ other.total_loss # None) =>
                  total_loss = other.total_loss

\* two finished runs, life expectancy 20 years in one and half a year in the
\* other, below the worklife horizon of 2.5 years: three rows and the same
\* total in both
C19_Witness ==
    /\ pc = "Returned"
    /\ other # NoOther
    /\ other.pc = "Returned"
    /\ DifferOnlyInLife(config, other.config)
    /\ life[1].years = R(20, 1)
    /\ other.life[1].years = R(1, 2)
    /\ worklife[1].years = R(5, 2)
    /\ Len(other.projections[1].actual) = 3
    /\ total_loss = Some(R(292, 1))
    /\ other.total_loss = total_loss

====
